----------------------------- MODULE Spec2Model -----------------------------
(***************************************************************************)
(* Model of gstbillingapp/views.py: the invoice_viewer request handler and *)
(* the inventory_logs_add request handler.                                 *)
(*                                                                         *)
(* Python values that reach the handler from the database and from the     *)
(* decoded invoice_json are modelled as tagged records; strings are        *)
(* sequences of one-character strings; a Decimal is a pair (c, s) standing *)
(* for c * 10^(-s); amounts quantized to 0.01 are integers of cents.       *)
(***************************************************************************)
EXTENDS Integers, Sequences, FiniteSets, TLC

VARIABLES
    db,        \* persisted records: the user's profile and invoices
    active,    \* the request handlers (workers) that serve requests
    pc,        \* pc[r]: where worker r is in invoice_viewer
    local,     \* local[r]: the Python locals of worker r's invocation
    start      \* history: the inventory records and the number of inventory
               \* logs before the first inventory_logs_add request

vars == <<db, active, pc, local, start>>

-----------------------------------------------------------------------------
(* Bounds of the model *)

MaxGstLen == 3
MaxItems == 2
MaxHsnDigits == 7
NumWorkers == 2
NumInvoiceIds == 2

Workers == 1..NumWorkers
InvoiceIds == 1..NumInvoiceIds

-----------------------------------------------------------------------------
(* Characters and strings *)

Digits == <<"0", "1", "2", "3", "4", "5", "6", "7", "8", "9">>

\* str.isdigit() on one character of the model's alphabet
IsDigit(ch) == \E k \in 1..10 : Digits[k] = ch

DigitVal(ch) == (CHOOSE k \in 1..10 : Digits[k] = ch) - 1

\* str.isspace() on one character of the model's alphabet
IsSpace(ch) == ch = " "

RECURSIVE LStrip(_)
LStrip(str) ==
    IF str # <<>> /\ IsSpace(Head(str)) THEN LStrip(Tail(str)) ELSE str

RECURSIVE RStrip(_)
RStrip(str) ==
    IF str # <<>> /\ IsSpace(str[Len(str)])
    THEN RStrip(SubSeq(str, 1, Len(str) - 1))
    ELSE str

\* str.strip()
Strip(str) == RStrip(LStrip(str))

\* str[:n]
Prefix(str, n) == SubSeq(str, 1, IF Len(str) < n THEN Len(str) ELSE n)

\* str.isdigit(): non-empty and every character a digit
AllDigits(str) == str # <<>> /\ \A k \in 1..Len(str) : IsDigit(str[k])

SeqsUpTo(S, n) == UNION {[1..k -> S] : k \in 0..n}

-----------------------------------------------------------------------------
(* Python values: a missing dict key, None, a number (int when s = 0, a     *)
(* float printed with s decimals otherwise), a string                       *)

Missing == [t |-> "missing", c |-> 0, s |-> 0, str |-> <<>>]
Null == [t |-> "null", c |-> 0, s |-> 0, str |-> <<>>]
Num(c, s) == [t |-> "num", c |-> c, s |-> s, str |-> <<>>]
Str(chars) == [t |-> "str", c |-> 0, s |-> 0, str |-> chars]

\* bool(v): the truth value the `or` of the handler tests
Truthy(v) ==
    CASE v.t = "num" -> v.c # 0
      [] v.t = "str" -> v.str # <<>>
      [] OTHER -> FALSE

\* v or d
OrDefault(v, d) == IF Truthy(v) THEN v ELSE d

-----------------------------------------------------------------------------
(* Decimal *)

Dec(c, s) == [c |-> c, s |-> s]

RECURSIVE Pow10(_)
Pow10(n) == IF n = 0 THEN 1 ELSE 10 * Pow10(n - 1)

Abs(n) == IF n < 0 THEN 0 - n ELSE n

Sign(n) == IF n < 0 THEN 0 - 1 ELSE 1

RECURSIVE NatStr(_)
NatStr(n) ==
    IF n < 10 THEN <<Digits[n + 1]>>
    ELSE Append(NatStr(n \div 10), Digits[(n % 10) + 1])

RECURSIVE PadStr(_, _)
PadStr(n, width) ==
    IF width <= 0 THEN <<>>
    ELSE Append(PadStr(n \div 10, width - 1), Digits[(n % 10) + 1])

\* str(x) of an int (s = 0) or of a float with s decimals
NumStr(c, s) ==
    (IF c < 0 THEN <<"-">> ELSE <<>>)
    \o NatStr(Abs(c) \div Pow10(s))
    \o (IF s = 0 THEN <<>> ELSE <<".">> \o PadStr(Abs(c) % Pow10(s), s))

\* str(v)
PyStr(v) == IF v.t = "num" THEN NumStr(v.c, v.s) ELSE v.str

RECURSIVE DigitsVal(_)
DigitsVal(str) ==
    IF str = <<>> THEN 0
    ELSE 10 * DigitsVal(SubSeq(str, 1, Len(str) - 1)) + DigitVal(str[Len(str)])

DotCount(str) == Cardinality({k \in 1..Len(str) : str[k] = "."})

DropDots(str) == SelectSeq(str, LAMBDA ch : ch # ".")

FracLen(str) ==
    IF DotCount(str) = 0 THEN 0
    ELSE Len(str) - (CHOOSE k \in 1..Len(str) : str[k] = ".")

\* Decimal(str): [ok |-> FALSE] stands for decimal.InvalidOperation
ParseDecimal(str) ==
    LET t == Strip(str)
        neg == t # <<>> /\ Head(t) = "-"
        body == IF neg THEN Tail(t) ELSE t
        ds == DropDots(body)
    IN  IF DotCount(body) <= 1 /\ AllDigits(ds)
        THEN [ok |-> TRUE,
              d |-> Dec((IF neg THEN 0 - 1 ELSE 1) * DigitsVal(ds), FracLen(body))]
        ELSE [ok |-> FALSE, d |-> Dec(0, 0)]

DecMul(a, b) == Dec(a.c * b.c, a.s + b.s)

\* a / Decimal(10^k)
DecDivPow10(a, k) == Dec(a.c, a.s + k)

\* Decimal of cents
Cents(n) == Dec(n, 2)

\* d.quantize(Decimal("0.01"), ROUND_HALF_UP), in cents: the digits beyond
\* the second decimal are dropped and the result is incremented in magnitude
\* when the first dropped digit is 5 or more
QuantizeHalfUp(d) ==
    IF d.s <= 2 THEN d.c * Pow10(2 - d.s)
    ELSE LET p == Pow10(d.s - 2)
             a == Abs(d.c)
             first == (a \div (p \div 10)) % 10
         IN  Sign(d.c) * ((a \div p) + (IF first >= 5 THEN 1 ELSE 0))


\* Decimal -> int(): truncation towards zero, on cents
IntOfCents(n) == Sign(n) * (Abs(n) \div 100)

-----------------------------------------------------------------------------
(* Stored records *)

\* one element of the item list of the stored invoice content
ItemRec(qty, rate, tax_rate, hsn) ==
    [isdict |-> TRUE, qty |-> qty, rate |-> rate, tax_rate |-> tax_rate, hsn |-> hsn]

\* an element of the item list that is not a JSON object
NonDictItem ==
    [isdict |-> FALSE, qty |-> Missing, rate |-> Missing, tax_rate |-> Missing,
     hsn |-> Missing]

\* the value under "invoice_items" or "items": absent, null, a list, a string
\* or a number
IMissing == [t |-> "missing", list |-> <<>>, str |-> <<>>, c |-> 0]
INull == [t |-> "null", list |-> <<>>, str |-> <<>>, c |-> 0]
IList(l) == [t |-> "list", list |-> l, str |-> <<>>, c |-> 0]
IStr(chars) == [t |-> "str", list |-> <<>>, str |-> chars, c |-> 0]
INum(c) == [t |-> "num", list |-> <<>>, str |-> <<>>, c |-> c]

ITruthy(iv) ==
    CASE iv.t = "list" -> iv.list # <<>>
      [] iv.t = "str" -> iv.str # <<>>
      [] iv.t = "num" -> iv.c # 0
      [] OTHER -> FALSE

\* Invoice.invoice_json: "empty" is NULL or the empty string, "invalid" is
\* text json.loads rejects, "nondict" is valid JSON that is no object
\* (null, a list, a number, a string), "object" is a JSON object
JsonEmpty ==
    [t |-> "empty", customer_gst |-> Missing, invoice_items |-> IMissing,
     items |-> IMissing]
JsonInvalid ==
    [t |-> "invalid", customer_gst |-> Missing, invoice_items |-> IMissing,
     items |-> IMissing]
JsonNonDict ==
    [t |-> "nondict", customer_gst |-> Missing, invoice_items |-> IMissing,
     items |-> IMissing]
JsonObject(customer_gst, invoice_items, items) ==
    [t |-> "object", customer_gst |-> customer_gst,
     invoice_items |-> invoice_items, items |-> items]

\* Invoice.invoice_customer: the foreign key may be null
NoCustomer == [exists |-> FALSE, customer_gst |-> Null]
Customer(gst) == [exists |-> TRUE, customer_gst |-> gst]

InvoiceRec(customer, json) == [invoice_customer |-> customer, invoice_json |-> json]

\* UserProfile of request.user, which may not exist
NoProfile == [exists |-> FALSE, business_gst |-> Null]
Profile(gst) == [exists |-> TRUE, business_gst |-> gst]

-----------------------------------------------------------------------------
(* invoice_viewer: the pure parts *)

\* json.loads(invoice_obj.invoice_json or "{}"), with the except branch
LoadJson(json) ==
    CASE json.t = "empty" ->
            [isdict |-> TRUE, customer_gst |-> Missing,
             invoice_items |-> IMissing, items |-> IMissing]
      [] json.t = "invalid" ->
            [isdict |-> TRUE, customer_gst |-> Missing,
             invoice_items |-> IMissing, items |-> IMissing]
      [] json.t = "nondict" ->
            [isdict |-> FALSE, customer_gst |-> Missing,
             invoice_items |-> IMissing, items |-> IMissing]
      [] OTHER ->
            [isdict |-> TRUE, customer_gst |-> json.customer_gst,
             invoice_items |-> json.invoice_items, items |-> json.items]

\* (user_profile.business_gst or "").strip()
SellerGst(profile) == Strip(OrDefault(profile.business_gst, Str(<<>>)).str)

\* the customer branch of the buyer lookup is taken
UsesCustomerGst(inv) ==
    inv.invoice_customer.exists /\ Truthy(inv.invoice_customer.customer_gst)

\* the buyer lookup without the two strip() calls
BuyerGstNoStrip(inv, data) ==
    IF UsesCustomerGst(inv)
    THEN [ok |-> TRUE, gst |-> inv.invoice_customer.customer_gst.str]
    ELSE IF ~data.isdict THEN [ok |-> FALSE, gst |-> <<>>]
    ELSE IF data.customer_gst.t = "missing" THEN [ok |-> TRUE, gst |-> <<>>]
    ELSE IF data.customer_gst.t = "str"
         THEN [ok |-> TRUE, gst |-> data.customer_gst.str]
    ELSE [ok |-> FALSE, gst |-> <<>>]

\* invoice_data.get("customer_gst", "").strip(): AttributeError when
\* invoice_data is no dict or the value is no string
BuyerGst(inv, data) ==
    IF UsesCustomerGst(inv)
    THEN [ok |-> TRUE, gst |-> Strip(inv.invoice_customer.customer_gst.str)]
    ELSE IF ~data.isdict THEN [ok |-> FALSE, gst |-> <<>>]
    ELSE IF data.customer_gst.t = "missing" THEN [ok |-> TRUE, gst |-> <<>>]
    ELSE IF data.customer_gst.t = "str"
         THEN [ok |-> TRUE, gst |-> Strip(data.customer_gst.str)]
    ELSE [ok |-> FALSE, gst |-> <<>>]

InvoiceType(buyer_gst) == IF buyer_gst # <<>> THEN "B2B" ELSE "B2C"

NoState == <<>>

\* gst_state without the isdigit() test
gst_state_NoDigitTest(gstin) ==
    IF gstin # <<>> /\ Len(gstin) >= 2 THEN Prefix(gstin, 2) ELSE NoState

gst_state(gstin) ==
    IF gstin # <<>> /\ Len(gstin) >= 2 /\ AllDigits(Prefix(gstin, 2))
    THEN Prefix(gstin, 2)
    ELSE NoState

TaxMode(seller_gst, buyer_gst) ==
    LET s_state == gst_state(seller_gst)
        b_state == gst_state(buyer_gst)
    IN  IF s_state # NoState /\ b_state # NoState /\ s_state = b_state
        THEN "INTRA" ELSE "INTER"

\* invoice_data.get("invoice_items") or invoice_data.get("items") or []
ExtractItems(data) ==
    IF ITruthy(data.invoice_items) THEN data.invoice_items
    ELSE IF ITruthy(data.items) THEN data.items
    ELSE IList(<<>>)

DefaultQty == 1
DefaultRate == 0
DefaultTax == 0

\* Decimal(str(it.get(key) or default))
ParseField(v, default) == ParseDecimal(PyStr(OrDefault(v, Num(default, 0))))

\* it.get("hsn") or ""
HsnOf(it) == OrDefault(it.hsn, Str(<<>>))

HsnB2B == 6
HsnB2C == 4

Recommended(invoice_type) == IF invoice_type = "B2B" THEN HsnB2B ELSE HsnB2C

\* the HSN code taken whole, separators counted
HsnDigitsAllChars(hsn) == hsn

\* "".join(ch for ch in hsn if ch.isdigit())
HsnDigits(hsn) == SelectSeq(hsn, IsDigit)

TaxableValue(qty, rate) == QuantizeHalfUp(DecMul(qty, rate))

TaxValue(taxable_value, tax_percent) ==
    QuantizeHalfUp(DecDivPow10(DecMul(Cents(taxable_value), tax_percent), 2))

\* the half of the tax truncated instead of rounded half-up
HalfTaxTruncated(tax_value) == Sign(tax_value) * (Abs(tax_value) \div 2)

\* (tax_value / 2).quantize(Decimal("0.01"), ROUND_HALF_UP)
HalfTax(tax_value) == QuantizeHalfUp(Dec(tax_value * 5, 3))

\* the error the body of the loop raises on item `it`, "" when it raises none
LineError(it) ==
    IF ~it.isdict THEN "AttributeError"
    ELSE IF ~ParseField(it.qty, DefaultQty).ok
            \/ ~ParseField(it.rate, DefaultRate).ok
            \/ ~ParseField(it.tax_rate, DefaultTax).ok
         THEN "InvalidOperation"
    ELSE IF HsnOf(it).t = "num" THEN "TypeError"
    ELSE ""

\* the line with the tax always split, whatever the tax mode
LineAlwaysSplit(it, tax_mode, invoice_type) ==
    LET qty == ParseField(it.qty, DefaultQty).d
        rate == ParseField(it.rate, DefaultRate).d
        tax_percent == ParseField(it.tax_rate, DefaultTax).d
        hsn == HsnOf(it).str
        taxable_value == TaxableValue(qty, rate)
        tax_value == TaxValue(taxable_value, tax_percent)
        recommended == Recommended(invoice_type)
    IN  [qty |-> qty, rate |-> rate, tax_percent |-> tax_percent,
         taxable_value |-> taxable_value, tax_value |-> tax_value,
         cgst |-> HalfTax(tax_value),
         sgst |-> HalfTax(tax_value),
         igst |-> 0,
         hsn |-> hsn,
         hsn_warning |-> Len(HsnDigits(hsn)) < recommended,
         hsn_recommended |-> recommended]

\* the dict the body of the loop appends to breakdown
Line(it, tax_mode, invoice_type) ==
    LET qty == ParseField(it.qty, DefaultQty).d
        rate == ParseField(it.rate, DefaultRate).d
        tax_percent == ParseField(it.tax_rate, DefaultTax).d
        hsn == HsnOf(it).str
        taxable_value == TaxableValue(qty, rate)
        tax_value == TaxValue(taxable_value, tax_percent)
        recommended == Recommended(invoice_type)
    IN  [qty |-> qty, rate |-> rate, tax_percent |-> tax_percent,
         taxable_value |-> taxable_value, tax_value |-> tax_value,
         cgst |-> IF tax_mode = "INTRA" THEN HalfTax(tax_value) ELSE 0,
         sgst |-> IF tax_mode = "INTRA" THEN HalfTax(tax_value) ELSE 0,
         igst |-> IF tax_mode = "INTRA" THEN 0 ELSE tax_value,
         hsn |-> hsn,
         hsn_warning |-> Len(HsnDigits(hsn)) < recommended,
         hsn_recommended |-> recommended]

\* d.quantize(Decimal("0.01")) under the default context (ROUND_HALF_EVEN)
QuantizeHalfEven(d) ==
    IF d.s <= 2 THEN d.c * Pow10(2 - d.s)
    ELSE LET p == Pow10(d.s - 2)
             a == Abs(d.c)
             q == a \div p
             rem == a % p
         IN  Sign(d.c) * (IF 2 * rem > p \/ (2 * rem = p /\ q % 2 = 1)
                          THEN q + 1 ELSE q)

-----------------------------------------------------------------------------
(* invoice_viewer: the handler, one invocation per worker at a time *)

\* the locals of a worker that runs no invocation
NoLocals ==
    [invoice_id |-> 0, seller_gst |-> <<>>, buyer_gst |-> <<>>,
     invoice_type |-> "", tax_mode |-> "", items |-> IList(<<>>), i |-> 0,
     breakdown |-> <<>>, total_taxable |-> 0, total_tax |-> 0,
     total_cgst |-> 0, total_sgst |-> 0, total_igst |-> 0,
     grand_total |-> 0, total_int |-> 0, err |-> ""]

Raise(r, invoice_id, err) ==
    /\ pc' = [pc EXCEPT ![r] = "error"]
    /\ local' = [local EXCEPT ![r] = [NoLocals EXCEPT !.invoice_id = invoice_id,
                                                      !.err = err]]

\* the locals after lines 219-267, before the loop
Setup(invoice_id, inv, profile) ==
    LET invoice_data == LoadJson(inv.invoice_json)
        seller_gst == SellerGst(profile)
        buyer_gst == BuyerGst(inv, invoice_data).gst
    IN  [NoLocals EXCEPT
            !.invoice_id = invoice_id,
            !.seller_gst = seller_gst,
            !.buyer_gst = buyer_gst,
            !.invoice_type = InvoiceType(buyer_gst),
            !.tax_mode = TaxMode(seller_gst, buyer_gst),
            !.items = ExtractItems(invoice_data)]

\* the handler with its accumulators kept in module-level variables, which a
\* new invocation does not reset
InvokeKeepsTotals(r, invoice_id) ==
    /\ r \in active
    /\ pc[r] \in {"idle", "done", "error", "http404"}
    /\ IF invoice_id \notin DOMAIN db.invoices \/ ~db.user_profile.exists
       THEN /\ pc' = [pc EXCEPT ![r] = "http404"]
            /\ local' = [local EXCEPT ![r] = [NoLocals EXCEPT !.invoice_id = invoice_id]]
       ELSE LET inv == db.invoices[invoice_id]
                invoice_data == LoadJson(inv.invoice_json)
            IN  IF ~BuyerGst(inv, invoice_data).ok \/ ~invoice_data.isdict
                THEN Raise(r, invoice_id, "AttributeError")
                ELSE /\ pc' = [pc EXCEPT ![r] = "loop"]
                     /\ local' = [local EXCEPT ![r] =
                                    [Setup(invoice_id, inv, db.user_profile) EXCEPT
                                        !.total_taxable = local[r].total_taxable,
                                        !.total_tax = local[r].total_tax,
                                        !.total_cgst = local[r].total_cgst,
                                        !.total_sgst = local[r].total_sgst,
                                        !.total_igst = local[r].total_igst]]
    /\ UNCHANGED <<db, active>>

\* a request for invoice_id arrives at worker r: get_object_or_404 twice,
\* then everything up to the loop
Invoke(r, invoice_id) ==
    /\ r \in active
    /\ pc[r] \in {"idle", "done", "error", "http404"}
    /\ IF invoice_id \notin DOMAIN db.invoices \/ ~db.user_profile.exists
       THEN /\ pc' = [pc EXCEPT ![r] = "http404"]
            /\ local' = [local EXCEPT ![r] = [NoLocals EXCEPT !.invoice_id = invoice_id]]
       ELSE LET inv == db.invoices[invoice_id]
                invoice_data == LoadJson(inv.invoice_json)
            IN  IF ~BuyerGst(inv, invoice_data).ok \/ ~invoice_data.isdict
                THEN Raise(r, invoice_id, "AttributeError")
                ELSE /\ pc' = [pc EXCEPT ![r] = "loop"]
                     /\ local' = [local EXCEPT ![r] =
                                    Setup(invoice_id, inv, db.user_profile)]
    /\ UNCHANGED <<db, active>>

\* the loop body without `total_tax += tax_value`
AddLineNoTotalTax(l, it) ==
    LET line == Line(it, l.tax_mode, l.invoice_type)
    IN  [l EXCEPT
            !.i = l.i + 1,
            !.total_cgst = IF l.tax_mode = "INTRA" THEN l.total_cgst + line.cgst
                           ELSE l.total_cgst,
            !.total_sgst = IF l.tax_mode = "INTRA" THEN l.total_sgst + line.sgst
                           ELSE l.total_sgst,
            !.total_igst = IF l.tax_mode = "INTRA" THEN l.total_igst
                           ELSE l.total_igst + line.igst,
            !.total_taxable = l.total_taxable + line.taxable_value,
            !.breakdown = Append(l.breakdown, line)]

\* the locals after one more pass of the loop body over item `it`
AddLine(l, it) ==
    LET line == Line(it, l.tax_mode, l.invoice_type)
    IN  [l EXCEPT
            !.i = l.i + 1,
            !.total_cgst = IF l.tax_mode = "INTRA" THEN l.total_cgst + line.cgst
                           ELSE l.total_cgst,
            !.total_sgst = IF l.tax_mode = "INTRA" THEN l.total_sgst + line.sgst
                           ELSE l.total_sgst,
            !.total_igst = IF l.tax_mode = "INTRA" THEN l.total_igst
                           ELSE l.total_igst + line.igst,
            !.total_taxable = l.total_taxable + line.taxable_value,
            !.total_tax = l.total_tax + line.tax_value,
            !.breakdown = Append(l.breakdown, line)]

\* one pass of `for it in items`
Step(r) ==
    /\ r \in active
    /\ pc[r] = "loop"
    /\ LET l == local[r]
       IN  CASE l.items.t = "num" -> Raise(r, l.invoice_id, "TypeError")
             [] l.items.t = "str" -> Raise(r, l.invoice_id, "AttributeError")
             [] OTHER ->
                  /\ l.i < Len(l.items.list)
                  /\ LET it == l.items.list[l.i + 1]
                     IN  IF LineError(it) # ""
                         THEN Raise(r, l.invoice_id, LineError(it))
                         ELSE /\ local' = [local EXCEPT ![r] = AddLine(l, it)]
                              /\ UNCHANGED pc
    /\ UNCHANGED <<db, active>>

\* the locals after lines 312-318
Totals(l) ==
    LET grand_total == QuantizeHalfEven(Cents(l.total_taxable + l.total_tax))
    IN  [l EXCEPT !.grand_total = grand_total,
                  !.total_int = IntOfCents(grand_total)]

\* the loop is exhausted: grand total, words, render
Finish(r) ==
    /\ r \in active
    /\ pc[r] = "loop"
    /\ local[r].items.t = "list"
    /\ local[r].i = Len(local[r].items.list)
    /\ pc' = [pc EXCEPT ![r] = "done"]
    /\ local' = [local EXCEPT ![r] = Totals(local[r])]
    /\ UNCHANGED <<db, active>>

Next ==
    \/ \E r \in Workers, invoice_id \in InvoiceIds :
          Invoke(r, invoice_id) /\ UNCHANGED start
    \/ \E r \in Workers : Step(r) /\ UNCHANGED start
    \/ \E r \in Workers : Finish(r) /\ UNCHANGED start

-----------------------------------------------------------------------------
(* Stored inputs *)

GstChars == {"2", "7", "A", " "}

GstStrings == SeqsUpTo(GstChars, MaxGstLen)

RECURSIVE MakeHsn(_, _)
MakeHsn(n, sep) ==
    IF n = 0 THEN <<>>
    ELSE MakeHsn(n - 1, sep)
         \o (IF sep /\ n > 1 THEN <<".">> ELSE <<>>)
         \o <<Digits[(n % 10) + 1]>>

HsnVals ==
    {Missing, Null, Num(0, 0), Num(1234, 0), Str(<<"A", "B">>)}
    \cup {Str(MakeHsn(n, sep)) : n \in 0..MaxHsnDigits, sep \in BOOLEAN}

QtyVals ==
    {Missing, Null, Num(0, 0), Num(0, 1), Num(2, 0), Num(5, 1), Num(0 - 1, 0),
     Str(<<"3">>), Str(<<"0">>), Str(<<>>), Str(<<"a">>), Str(<<" ", "2", " ">>)}

RateVals ==
    {Missing, Null, Num(0, 0), Num(100, 0), Num(105, 2), Num(25, 2),
     Str(<<"0", ".", "5">>), Str(<<"1", ".", "2", ".", "3">>)}

TaxVals ==
    {Missing, Num(0, 0), Num(18, 0), Num(5, 0), Num(25, 1), Str(<<"1", "8">>),
     Str(<<"-">>)}

Hsn4 == Str(<<"1", "2", "3", "4">>)

\* the spec's example item: qty 2, rate 100, tax_rate 18, hsn "1234"
BaseItem == ItemRec(Num(2, 0), Num(100, 0), Num(18, 0), Hsn4)

FullItems ==
    {ItemRec(q, r, t, Hsn4) : q \in QtyVals, r \in RateVals, t \in TaxVals}
    \cup {ItemRec(Num(2, 0), Num(100, 0), Num(18, 0), h) : h \in HsnVals}
    \cup {NonDictItem}

SmallItems ==
    {BaseItem,
     ItemRec(Missing, Num(105, 2), Num(18, 0), Str(MakeHsn(6, FALSE))),
     ItemRec(Num(0, 0), Num(100, 0), Num(5, 0), Missing),
     ItemRec(Str(<<"3">>), Str(<<"0", ".", "5">>), Num(25, 1), Null),
     ItemRec(Str(<<"a">>), Num(100, 0), Num(18, 0), Hsn4)}

SellerA == Profile(Str(<<"2", "7", "A">>))

\* an intra-state B2B buyer, an inter-state B2B buyer, no buyer GSTIN
Buyers == {Customer(Str(<<"2", "7", "2">>)), Customer(Str(<<"7", "2">>)), NoCustomer}

Stored(profile, inv) == [user_profile |-> profile, invoices |-> (1 :> inv)]

\* every pair of seller and customer GSTIN, one item
ClassifyInput(stored) ==
    \E s \in {Str(g) : g \in GstStrings} \cup {Null}, b \in GstStrings :
        stored = Stored(Profile(s),
                        InvoiceRec(Customer(Str(b)),
                                   JsonObject(Missing, IList(<<BaseItem>>), IMissing)))

\* the buyer GSTIN taken from the stored content
FallbackInput(stored) ==
    \E c \in {NoCustomer, Customer(Null), Customer(Str(<<>>)), Customer(Str(<<" ">>)),
              Customer(Str(<<"7", "2">>))},
       g \in {Missing, Null, Num(27, 0)} \cup {Str(b) : b \in GstStrings} :
        stored = Stored(SellerA,
                        InvoiceRec(c, JsonObject(g, IList(<<BaseItem>>), IMissing)))

\* every single item
LineInput(stored) ==
    \E c \in Buyers, it \in FullItems :
        stored = Stored(SellerA,
                        InvoiceRec(c, JsonObject(Missing, IList(<<it>>), IMissing)))

ItemLists == SeqsUpTo(SmallItems, MaxItems)

\* lists of items, under either key
ListInput(stored) ==
    \/ \E c \in Buyers, l \in ItemLists :
          stored = Stored(SellerA,
                          InvoiceRec(c, JsonObject(Missing, IList(l), IMissing)))
    \/ \E c \in Buyers, l \in ItemLists, k \in {IMissing, INull, IList(<<>>)} :
          stored = Stored(SellerA, InvoiceRec(c, JsonObject(Missing, k, IList(l))))
    \/ \E l \in ItemLists :
          stored = Stored(SellerA,
                          InvoiceRec(NoCustomer,
                                     JsonObject(Missing, IList(<<BaseItem>>), IList(l))))

\* stored content from which no item list can be decoded
MalformedJson ==
    {JsonEmpty, JsonInvalid, JsonNonDict}
    \cup {JsonObject(Missing, k, k2) :
            k \in {IMissing, INull, IStr(<<>>), IStr(<<"a", "b">>), INum(0), INum(5),
                   IList(<<NonDictItem>>)},
            k2 \in {IMissing, IStr(<<"a", "b">>), INum(5)}}

MalformedInput(stored) ==
    \/ \E c \in Buyers, j \in MalformedJson : stored = Stored(SellerA, InvoiceRec(c, j))
    \/ stored = Stored(NoProfile, InvoiceRec(NoCustomer, JsonEmpty))

StoredInput(stored) ==
    \/ ClassifyInput(stored)
    \/ FallbackInput(stored)
    \/ LineInput(stored)
    \/ ListInput(stored)
    \/ MalformedInput(stored)

\* no inventory request is under study
NoStart == [inventories |-> <<>>, nlogs |-> 0]

Init ==
    /\ StoredInput(db)
    /\ active = {1}
    /\ pc = [r \in Workers |-> "idle"]
    /\ local = [r \in Workers |-> NoLocals]
    /\ start = NoStart

Spec == Init /\ [][Next]_vars

\* invoices that concurrent requests read: an intra-state one of two lines,
\* an inter-state one whose buyer GSTIN is in the stored content, one without
\* stored content, one whose first item has a qty that is no number
ConcInvoices ==
    {InvoiceRec(Customer(Str(<<"2", "7", "2">>)),
                JsonObject(Missing,
                           IList(<<BaseItem,
                                   ItemRec(Missing, Num(105, 2), Num(18, 0), Null)>>),
                           IMissing)),
     InvoiceRec(NoCustomer,
                JsonObject(Str(<<"7", "2">>), IMissing, IList(<<BaseItem>>))),
     InvoiceRec(NoCustomer, JsonEmpty),
     InvoiceRec(Customer(Str(<<"7", "2">>)),
                JsonObject(Missing,
                           IList(<<ItemRec(Str(<<"a">>), Num(100, 0), Num(18, 0), Hsn4)>>),
                           IMissing))}

ConcInputs ==
    {[user_profile |-> SellerA, invoices |-> (1 :> a) @@ (2 :> b)] :
        a \in ConcInvoices, b \in ConcInvoices}

InitConc ==
    /\ db \in ConcInputs
    /\ active = Workers
    /\ pc = [r \in Workers |-> "idle"]
    /\ local = [r \in Workers |-> NoLocals]
    /\ start = NoStart

\* every worker serves invoice_viewer requests, in any interleaving
SpecConc == InitConc /\ [][Next]_vars

\* the handler run from its first line to its last with nothing else running
RECURSIVE RunLoop(_)
RunLoop(l) ==
    CASE l.items.t = "num" ->
            [pc |-> "error",
             local |-> [NoLocals EXCEPT !.invoice_id = l.invoice_id, !.err = "TypeError"]]
      [] l.items.t = "str" ->
            [pc |-> "error",
             local |-> [NoLocals EXCEPT !.invoice_id = l.invoice_id,
                                        !.err = "AttributeError"]]
      [] OTHER ->
            IF l.i = Len(l.items.list) THEN [pc |-> "done", local |-> Totals(l)]
            ELSE LET it == l.items.list[l.i + 1]
                 IN  IF LineError(it) # ""
                     THEN [pc |-> "error",
                           local |-> [NoLocals EXCEPT !.invoice_id = l.invoice_id,
                                                      !.err = LineError(it)]]
                     ELSE RunLoop(AddLine(l, it))

RunAlone(stored, invoice_id) ==
    IF invoice_id \notin DOMAIN stored.invoices \/ ~stored.user_profile.exists
    THEN [pc |-> "http404", local |-> [NoLocals EXCEPT !.invoice_id = invoice_id]]
    ELSE LET inv == stored.invoices[invoice_id]
             invoice_data == LoadJson(inv.invoice_json)
         IN  IF ~BuyerGst(inv, invoice_data).ok \/ ~invoice_data.isdict
             THEN [pc |-> "error",
                   local |-> [NoLocals EXCEPT !.invoice_id = invoice_id,
                                              !.err = "AttributeError"]]
             ELSE RunLoop(Setup(invoice_id, inv, stored.user_profile))

-----------------------------------------------------------------------------
(* inventory_logs_add *)

MaxLogs == 2

\* an Invoice row with its invoice_number
NumberedInvoice(n) ==
    [invoice_customer |-> NoCustomer, invoice_json |-> JsonEmpty, invoice_number |-> n]

\* an Inventory row; last_log is the id of an InventoryLog, 0 for None
InventoryRec(product, current_stock, last_log) ==
    [product |-> product, current_stock |-> current_stock, last_log |-> last_log]

\* an InventoryLog row; its id is its position in the table;
\* associated_invoice is the id of an Invoice, 0 for None
InventoryLogRec(product, change, associated_invoice) ==
    [product |-> product, change |-> change, associated_invoice |-> associated_invoice]

\* InventoryLogForm(request.POST): valid with a change, or not valid
Form(valid, change) == [valid |-> valid, change |-> change]

\* int(str): [ok |-> FALSE] stands for ValueError
ParseInt(str) ==
    LET t == Strip(str)
        signed == t # <<>> /\ Head(t) \in {"-", "+"}
        body == IF signed THEN Tail(t) ELSE t
    IN  IF AllDigits(body)
        THEN [ok |-> TRUE,
              n |-> (IF t # <<>> /\ Head(t) = "-" THEN 0 - 1 ELSE 1) * DigitsVal(body)]
        ELSE [ok |-> FALSE, n |-> 0]

\* Invoice.objects.get(user=request.user, invoice_number=int(invoice_no)):
\* [ok |-> FALSE] stands for ValueError, DoesNotExist or
\* MultipleObjectsReturned, which the bare except catches alike
GetInvoice(stored, invoice_no) ==
    LET n == ParseInt(invoice_no.str)
        found == {id \in DOMAIN stored.invoices :
                    stored.invoices[id].invoice_number = n.n}
    IN  IF n.ok /\ Cardinality(found) = 1
        THEN [ok |-> TRUE, id |-> CHOOSE id \in found : TRUE]
        ELSE [ok |-> FALSE, id |-> 0]

\* lines 512-521 without inventory.current_stock += log.change
SaveLogNoStockUpdate(stored, inventory_id, invoice, form) ==
    LET inventory == stored.inventories[inventory_id]
        log == InventoryLogRec(inventory.product, form.change, invoice)
        logs == Append(stored.inventory_logs, log)
    IN  [stored EXCEPT
            !.inventory_logs = logs,
            !.inventories[inventory_id].last_log = Len(logs)]

\* lines 512-521: the log is saved, then the inventory with the new stock
\* and the new last_log
SaveLog(stored, inventory_id, invoice, form) ==
    LET inventory == stored.inventories[inventory_id]
        log == InventoryLogRec(inventory.product, form.change, invoice)
        logs == Append(stored.inventory_logs, log)
    IN  [stored EXCEPT
            !.inventory_logs = logs,
            !.inventories[inventory_id].current_stock =
                inventory.current_stock + log.change,
            !.inventories[inventory_id].last_log = Len(logs)]

\* the answer of inventory_logs_add and the records it leaves
Respond(stored, inventory_id, method, invoice_no, form) ==
    IF inventory_id \notin DOMAIN stored.inventories
    THEN [pc |-> "http404", db |-> stored, error_message |-> ""]
    ELSE IF method # "POST"
    THEN [pc |-> "form", db |-> stored, error_message |-> ""]
    ELSE IF Truthy(invoice_no) /\ ~GetInvoice(stored, invoice_no).ok
    THEN [pc |-> "rejected", db |-> stored,
          error_message |-> "Incorrect invoice number"]
    ELSE IF ~form.valid
    THEN [pc |-> "error", db |-> stored, error_message |-> "ValueError"]
    ELSE [pc |-> "redirect",
          db |-> SaveLog(stored, inventory_id,
                         IF Truthy(invoice_no) THEN GetInvoice(stored, invoice_no).id
                         ELSE 0,
                         form),
          error_message |-> ""]

\* one request to inventory_logs_add, served from its first line to its last
inventory_logs_add(r, inventory_id, method, invoice_no, form) ==
    LET answer == Respond(db, inventory_id, method, invoice_no, form)
    IN  /\ r \in active
        /\ Len(answer.db.inventory_logs) <= MaxLogs
        /\ db' = answer.db
        /\ pc' = [pc EXCEPT ![r] = answer.pc]
        /\ local' = [local EXCEPT ![r] =
                        [inventory_id |-> inventory_id,
                         error_message |-> answer.error_message]]
        /\ UNCHANGED <<active, start>>

RequestedInventoryIds == {1, 2, 3}

Methods == {"GET", "POST"}

InvoiceNoVals ==
    {Missing, Str(<<>>), Str(<<" ", "2">>), Str(<<"7">>), Str(<<"a">>)}

FormVals == {Form(TRUE, 3), Form(TRUE, 0 - 2), Form(FALSE, 0)}

NextInventory ==
    \E r \in Workers, inventory_id \in RequestedInventoryIds, method \in Methods,
       invoice_no \in InvoiceNoVals, form \in FormVals :
        inventory_logs_add(r, inventory_id, method, invoice_no, form)

\* the invoice numbers of the user's two invoices: distinct, or the same
InvoiceNumberings == {<<1, 2>>, <<7, 7>>}

StartStocks == {0, 5}

\* two inventories of two products; the first may have a log already
InitInventory ==
    /\ \E nums \in InvoiceNumberings, s0 \in StartStocks, old \in BOOLEAN :
          db = [user_profile |-> SellerA,
                invoices |-> (1 :> NumberedInvoice(nums[1]))
                             @@ (2 :> NumberedInvoice(nums[2])),
                inventories |-> (1 :> InventoryRec("p1", s0, IF old THEN 1 ELSE 0))
                                @@ (2 :> InventoryRec("p2", 10, 0)),
                inventory_logs |-> IF old THEN <<InventoryLogRec("p1", 4, 0)>>
                                   ELSE <<>>]
    /\ active = {1}
    /\ pc = [r \in Workers |-> "idle"]
    /\ local = [r \in Workers |-> NoLocals]
    /\ start = [inventories |-> db.inventories, nlogs |-> Len(db.inventory_logs)]

\* inventory_logs_add requests, one at a time
SpecInventory == InitInventory /\ [][NextInventory]_vars

-----------------------------------------------------------------------------
(* Vocabulary of the properties *)

\* worker r is inside the loop of an invocation or has rendered its result
Running(r) == r \in active /\ pc[r] \in {"loop", "done"}

\* the stored invoice worker r's invocation reads
InvoiceOf(r) == db.invoices[local[r].invoice_id]

\* the item list stored in that invoice (the list the loop runs over)
StoredItems(r) == ExtractItems(LoadJson(InvoiceOf(r).invoice_json)).list

\* a field that holds a number: a JSON number or a numeric string
IsNumeric(v) == v.t = "num" \/ (v.t = "str" /\ ParseDecimal(v.str).ok)

IsAbsent(v) == v.t \in {"missing", "null"}

\* the value a numeric field denotes
ValueOf(v) == IF v.t = "num" THEN Dec(v.c, v.s) ELSE ParseDecimal(v.str).d

\* the value the claims give a field: its own when numeric, the default when absent
Expected(v, default) == IF IsAbsent(v) THEN Dec(default, 0) ELSE ValueOf(v)

\* two decimals denote the same number
SameNumber(a, b) == a.c * Pow10(b.s) = b.c * Pow10(a.s)

\* n is num/den (den > 0) rounded to the nearest integer, a tie going away
\* from zero
RoundsHalfUp(n, num, den) ==
    /\ 2 * Abs(n * den - num) <= den
    /\ 2 * Abs(n * den - num) = den => Abs(n * den) > Abs(num)

DigitCount(str) == Cardinality({k \in 1..Len(str) : IsDigit(str[k])})

\* the first two characters of a string are digits
TwoDigitPrefix(str) == Len(str) >= 2 /\ IsDigit(str[1]) /\ IsDigit(str[2])

RECURSIVE SumOf(_, _)
SumOf(lines, field) ==
    IF lines = <<>> THEN 0
    ELSE lines[1][field] + SumOf(Tail(lines), field)

-----------------------------------------------------------------------------
(* C1 *)

\* C1, as stated: every line whose item has numeric qty, rate and tax_rate
\* (zero included) or absent ones has taxable_value = qty * rate rounded
\* half-up to cents and tax_value = taxable_value * tax_rate / 100 rounded
\* half-up to cents, from the item's own values, the defaults 1, 0, 0 standing
\* in only for a missing or null field.
C1_OwnValuesUsed ==
    \A r \in Workers : Running(r) =>
        \A k \in 1..Len(local[r].breakdown) :
            LET it == StoredItems(r)[k]
                line == local[r].breakdown[k]
                q == Expected(it.qty, DefaultQty)
                ra == Expected(it.rate, DefaultRate)
                t == Expected(it.tax_rate, DefaultTax)
            IN  (/\ IsNumeric(it.qty) \/ IsAbsent(it.qty)
                 /\ IsNumeric(it.rate) \/ IsAbsent(it.rate)
                 /\ IsNumeric(it.tax_rate) \/ IsAbsent(it.tax_rate))
                =>
                /\ SameNumber(line.qty, q)
                /\ SameNumber(line.rate, ra)
                /\ SameNumber(line.tax_percent, t)
                /\ RoundsHalfUp(line.taxable_value, 100 * q.c * ra.c, Pow10(q.s + ra.s))
                /\ RoundsHalfUp(line.tax_value, line.taxable_value * t.c,
                                100 * Pow10(t.s))

-----------------------------------------------------------------------------
(* C2 *)

\* C2: tax_mode is INTRA exactly when the trimmed seller and buyer GSTIN both
\* have length >= 2, both start with two digits, and the two prefixes are
\* equal; it is INTER in every other case.
C2_TaxModeIffEqualDigitPrefixes ==
    \A r \in Workers : Running(r) =>
        LET s == local[r].seller_gst
            b == local[r].buyer_gst
            same == /\ TwoDigitPrefix(s)
                    /\ TwoDigitPrefix(b)
                    /\ s[1] = b[1]
                    /\ s[2] = b[2]
        IN  /\ local[r].tax_mode = (IF same THEN "INTRA" ELSE "INTER")
            /\ s = <<>> \/ (~IsSpace(s[1]) /\ ~IsSpace(s[Len(s)]))
            /\ b = <<>> \/ (~IsSpace(b[1]) /\ ~IsSpace(b[Len(b)]))

\* an INTRA invoice whose two GSTIN differ after the prefix
C2_Witness ==
    \E r \in Workers :
        /\ pc[r] = "done"
        /\ local[r].tax_mode = "INTRA"
        /\ local[r].seller_gst # local[r].buyer_gst

-----------------------------------------------------------------------------
(* C3 *)

\* C3: on an INTRA invoice every line has cgst = sgst = tax_value / 2 rounded
\* half-up to cents and igst = 0; cgst + sgst is within one cent of tax_value
\* and equal to it when tax_value is an even number of cents.
C3_IntraSplit ==
    \A r \in Workers : (Running(r) /\ local[r].tax_mode = "INTRA") =>
        \A k \in 1..Len(local[r].breakdown) :
            LET line == local[r].breakdown[k]
            IN  /\ RoundsHalfUp(line.cgst, line.tax_value, 2)
                /\ RoundsHalfUp(line.sgst, line.tax_value, 2)
                /\ line.igst = 0
                /\ Abs(line.cgst + line.sgst - line.tax_value) <= 1
                /\ line.tax_value % 2 = 0 => line.cgst + line.sgst = line.tax_value

\* an INTRA line with an odd number of cents of tax, split one cent over
C3_Witness ==
    \E r \in Workers :
        /\ pc[r] = "done"
        /\ local[r].tax_mode = "INTRA"
        /\ \E k \in 1..Len(local[r].breakdown) :
              LET line == local[r].breakdown[k]
              IN  /\ line.tax_value % 2 = 1
                  /\ line.cgst + line.sgst = line.tax_value + 1

-----------------------------------------------------------------------------
(* C4 *)

\* C4: on an INTER invoice (every invoice whose seller or buyer GSTIN is
\* empty or has no two-digit prefix is one) every line has igst = tax_value
\* and cgst = sgst = 0, total_cgst and total_sgst stay 0 and total_igst equals
\* total_tax.
C4_InterAllIgst ==
    \A r \in Workers : Running(r) =>
        /\ (~TwoDigitPrefix(local[r].seller_gst) \/ ~TwoDigitPrefix(local[r].buyer_gst))
              => local[r].tax_mode = "INTER"
        /\ local[r].tax_mode = "INTER" =>
              /\ \A k \in 1..Len(local[r].breakdown) :
                    LET line == local[r].breakdown[k]
                    IN  /\ line.igst = line.tax_value
                        /\ line.cgst = 0
                        /\ line.sgst = 0
              /\ local[r].total_cgst = 0
              /\ local[r].total_sgst = 0
              /\ local[r].total_igst = local[r].total_tax

\* a rendered INTER invoice without a buyer GSTIN that carries tax
C4_Witness ==
    \E r \in Workers :
        /\ pc[r] = "done"
        /\ local[r].tax_mode = "INTER"
        /\ local[r].buyer_gst = <<>>
        /\ local[r].total_igst > 0

-----------------------------------------------------------------------------
(* C5 *)

\* C5: once the whole list is processed, each total is the sum of its field
\* over the breakdown lines, grand_total = total_taxable + total_tax, and the
\* breakdown has one entry per stored item, in the order of the items; for
\* the empty list the totals are zero and the breakdown is empty.
C5_TotalsAreSums ==
    \A r \in Workers : (r \in active /\ pc[r] = "done") =>
        LET l == local[r]
            its == StoredItems(r)
        IN  /\ l.total_taxable = SumOf(l.breakdown, "taxable_value")
            /\ l.total_tax = SumOf(l.breakdown, "tax_value")
            /\ l.total_cgst = SumOf(l.breakdown, "cgst")
            /\ l.total_sgst = SumOf(l.breakdown, "sgst")
            /\ l.total_igst = SumOf(l.breakdown, "igst")
            /\ l.grand_total = l.total_taxable + l.total_tax
            /\ Len(l.breakdown) = Len(its)
            /\ \A k \in 1..Len(its) :
                  l.breakdown[k] = Line(its[k], l.tax_mode, l.invoice_type)
            /\ its = <<>> =>
                  /\ l.breakdown = <<>>
                  /\ l.total_taxable = 0 /\ l.total_tax = 0 /\ l.total_cgst = 0
                  /\ l.total_sgst = 0 /\ l.total_igst = 0 /\ l.grand_total = 0

\* a rendered invoice of two different lines, both with tax
C5_Witness ==
    \E r \in Workers :
        /\ pc[r] = "done"
        /\ Len(local[r].breakdown) = 2
        /\ local[r].breakdown[1] # local[r].breakdown[2]
        /\ local[r].breakdown[1].tax_value > 0
        /\ local[r].breakdown[2].tax_value > 0

-----------------------------------------------------------------------------
(* C6 *)

\* a field that is present and is no decimal number
IsUnparsable(v) == v.t = "str" /\ ~ParseDecimal(v.str).ok

\* worker r serves an invoice whose stored content is an object holding a
\* list of item records with textual or absent HSN codes, the buyer GSTIN
\* being readable
ServesItemRecords(r) ==
    /\ r \in active
    /\ pc[r] \in {"loop", "done", "error"}
    /\ LET inv == InvoiceOf(r)
           data == LoadJson(inv.invoice_json)
       IN  /\ inv.invoice_json.t = "object"
           /\ BuyerGst(inv, data).ok
           /\ ExtractItems(data).t = "list"
           /\ \A k \in 1..Len(ExtractItems(data).list) :
                 /\ ExtractItems(data).list[k].isdict
                 /\ ExtractItems(data).list[k].hsn.t # "num"

\* C6, as stated: a qty, rate or tax_rate that is present but is no decimal
\* number is replaced by its default (1, 0, 0), and invoice_viewer raises no
\* error on such an invoice.
C6_UnparsableBecomesDefault ==
    \A r \in Workers : ServesItemRecords(r) =>
        /\ pc[r] # "error"
        /\ \A k \in 1..Len(local[r].breakdown) :
              LET it == StoredItems(r)[k]
                  line == local[r].breakdown[k]
              IN  /\ IsUnparsable(it.qty) => line.qty = Dec(DefaultQty, 0)
                  /\ IsUnparsable(it.rate) => line.rate = Dec(DefaultRate, 0)
                  /\ IsUnparsable(it.tax_rate) => line.tax_percent = Dec(DefaultTax, 0)

-----------------------------------------------------------------------------
(* C7 *)

\* no list of item records can be decoded from the stored invoice_json
NoItemList(json) ==
    \/ json.t \in {"empty", "invalid", "nondict"}
    \/ /\ json.t = "object"
       /\ LET its == ExtractItems(LoadJson(json))
          IN  \/ its.t # "list"
              \/ \E k \in 1..Len(its.list) : ~its.list[k].isdict

\* C7, as stated: on a stored invoice_json from which no item list can be
\* decoded invoice_viewer raises no error, and renders an empty breakdown
\* and zero totals.
C7_UndecodableMeansNoItems ==
    \A r \in Workers :
        (/\ r \in active
         /\ pc[r] \in {"loop", "done", "error"}
         /\ NoItemList(InvoiceOf(r).invoice_json))
        =>
        /\ pc[r] # "error"
        /\ pc[r] = "done" =>
              /\ local[r].breakdown = <<>>
              /\ local[r].total_taxable = 0 /\ local[r].total_tax = 0
              /\ local[r].total_cgst = 0 /\ local[r].total_sgst = 0
              /\ local[r].total_igst = 0 /\ local[r].grand_total = 0

-----------------------------------------------------------------------------
(* C8 *)

\* the customer linked to the invoice has a GSTIN
CustomerHasGst(inv) ==
    /\ inv.invoice_customer.exists
    /\ inv.invoice_customer.customer_gst.t = "str"
    /\ inv.invoice_customer.customer_gst.str # <<>>

\* the untrimmed buyer GSTIN: the customer's, else the stored content's
BuyerSource(inv) ==
    IF CustomerHasGst(inv) THEN inv.invoice_customer.customer_gst.str
    ELSE IF inv.invoice_json.t = "object" /\ inv.invoice_json.customer_gst.t = "str"
         THEN inv.invoice_json.customer_gst.str
    ELSE <<>>

\* C8: the buyer GSTIN is the linked customer's GSTIN when there is one and
\* the customer_gst of the stored content otherwise, trimmed; invoice_type is
\* B2B exactly when it holds a character that is no whitespace, else B2C.
C8_BuyerAndInvoiceType ==
    \A r \in Workers : Running(r) =>
        LET src == BuyerSource(InvoiceOf(r))
            b == local[r].buyer_gst
            nonblank == \E k \in 1..Len(src) : ~IsSpace(src[k])
        IN  /\ \E i \in 0..Len(src), j \in 0..Len(src) :
                  /\ b = SubSeq(src, i + 1, j)
                  /\ \A k \in 1..Len(src) : (k <= i \/ k > j) => IsSpace(src[k])
            /\ b = <<>> \/ (~IsSpace(b[1]) /\ ~IsSpace(b[Len(b)]))
            /\ local[r].invoice_type = (IF nonblank THEN "B2B" ELSE "B2C")

\* a B2C invoice whose customer GSTIN is whitespace only, the stored content
\* naming a GSTIN
C8_Witness ==
    \E r \in Workers :
        /\ pc[r] = "done"
        /\ local[r].invoice_type = "B2C"
        /\ CustomerHasGst(InvoiceOf(r))
        /\ InvoiceOf(r).invoice_json.customer_gst.t = "str"
        /\ InvoiceOf(r).invoice_json.customer_gst.str # <<>>

-----------------------------------------------------------------------------
(* C9 *)

\* the HSN code stored with an item, a missing one being empty
StoredHsn(it) == IF it.hsn.t = "str" THEN it.hsn.str ELSE <<>>

\* C9: on every line hsn_recommended is 6 on a B2B invoice and 4 on a B2C
\* one, and hsn_warning holds exactly when the HSN code has fewer digit
\* characters than that.
C9_HsnWarning ==
    \A r \in Workers : Running(r) =>
        \A k \in 1..Len(local[r].breakdown) :
            LET line == local[r].breakdown[k]
                recommended == IF local[r].invoice_type = "B2B" THEN 6 ELSE 4
            IN  /\ local[r].invoice_type \in {"B2B", "B2C"}
                /\ line.hsn_recommended = recommended
                /\ line.hsn_warning = (DigitCount(StoredHsn(StoredItems(r)[k])) < recommended)

\* a B2B line whose HSN code has six characters or more, fewer than six of
\* them digits, and is warned about
C9_Witness ==
    \E r \in Workers :
        /\ pc[r] = "done"
        /\ local[r].invoice_type = "B2B"
        /\ \E k \in 1..Len(local[r].breakdown) :
              /\ Len(local[r].breakdown[k].hsn) >= 6
              /\ local[r].breakdown[k].hsn_warning

-----------------------------------------------------------------------------
(* C10 *)

\* worker r has answered its request
Answered(r) == r \in active /\ pc[r] \in {"done", "error", "http404"}

\* C10: no step of invoice_viewer changes a persisted record, a step of one
\* invocation changes no other invocation's locals, and whatever the
\* interleaving and whatever the worker served before, the answer of an
\* invocation is the answer the handler gives when run alone on the same
\* stored records.
C10_ReadOnlyAndIndependent ==
    [][/\ db' = db
       /\ \A r1, r2 \in Workers :
            (r1 # r2 /\ local'[r1] # local[r1]) =>
                (local'[r2] = local[r2] /\ pc'[r2] = pc[r2])
       /\ \A r \in Workers : Answered(r)' =>
            [pc |-> pc'[r], local |-> local'[r]] = RunAlone(db', local'[r].invoice_id)
      ]_vars

\* one worker has rendered a two-line invoice while another is half-way
\* through the same invoice
C10_Witness ==
    \E r1, r2 \in Workers :
        /\ r1 # r2
        /\ pc[r1] = "done"
        /\ Len(local[r1].breakdown) = 2
        /\ pc[r2] = "loop"
        /\ local[r2].i = 1
        /\ local[r2].invoice_id = local[r1].invoice_id

-----------------------------------------------------------------------------
(* C11 *)

\* the ids of the logs of `product` created since the start
CreatedLogs(stored, product) ==
    {i \in (start.nlogs + 1)..Len(stored.inventory_logs) :
        stored.inventory_logs[i].product = product}

RECURSIVE SumChanges(_, _)
SumChanges(logs, ids) ==
    IF ids = {} THEN 0
    ELSE LET i == CHOOSE i \in ids : TRUE
         IN  logs[i].change + SumChanges(logs, ids \ {i})

MaxOf(ids) == CHOOSE i \in ids : \A j \in ids : j <= i

\* the claim about the records `stored`
StockIsStartPlusLogs(stored) ==
    \A k \in DOMAIN stored.inventories :
        LET inventory == stored.inventories[k]
            created == CreatedLogs(stored, inventory.product)
        IN  /\ inventory.current_stock =
                  start.inventories[k].current_stock
                  + SumChanges(stored.inventory_logs, created)
            /\ inventory.last_log =
                  (IF created = {} THEN start.inventories[k].last_log
                   ELSE MaxOf(created))

\* C11: after every inventory_logs_add request of a sequence served one at a
\* time, current_stock is the starting stock plus the changes of the logs the
\* requests created for the inventory's product and last_log is the latest
\* of them; an accepted request creates exactly one log, and a request
\* rejected for its invoice number creates none and leaves every inventory
\* as it was.
C11_StockIsStartPlusLogs ==
    [][/\ StockIsStartPlusLogs(db')
       /\ \A r \in Workers :
            /\ pc'[r] = "redirect" =>
                  /\ Len(db'.inventory_logs) = Len(db.inventory_logs) + 1
                  /\ SubSeq(db'.inventory_logs, 1, Len(db.inventory_logs))
                        = db.inventory_logs
            /\ pc'[r] = "rejected" =>
                  /\ db'.inventory_logs = db.inventory_logs
                  /\ db'.inventories = db.inventories
      ]_vars

\* a request has just been rejected after two accepted ones changed the stock
\* of the first inventory, one of them naming an invoice
C11_Witness ==
    /\ start.nlogs = 0
    /\ \E r \in Workers :
          /\ pc[r] = "rejected"
          /\ local[r].inventory_id = 1
    /\ Cardinality(CreatedLogs(db, "p1")) = 2
    /\ \E i \in CreatedLogs(db, "p1") : db.inventory_logs[i].associated_invoice # 0
    /\ db.inventories[1].current_stock # start.inventories[1].current_stock
    /\ db.inventories[1].last_log = 2

=============================================================================
